---- MODULE Spec2Model ----
(***************************************************************************)
(* A model of the neuroevolution core of neat_experiements:                *)
(*   - NeuralNetwork (neural_network.rs): new, predict, crossover, mutate  *)
(*   - XorApp::update (xor/xor_app.rs): the generation clock               *)
(* NeuralNetworkNeuron lives in neural_network_neuron.rs, which is not     *)
(* part of the sources at hand; its four operations (new, activate,        *)
(* crossover, mutate) are modelled from the design document (sec. 4.1).    *)
(* Real numbers are modelled by integers; random draws are inputs chosen   *)
(* with \E from small sets.                                                *)
(***************************************************************************)
EXTENDS Integers, Sequences, FiniteSets, TLC

VARIABLES nets, shape0, op, memo, muts, watch,
          elapsed, loops, skipped_generations, dt_in

netVars == <<nets, shape0, op, memo, muts, watch>>
xorVars == <<elapsed, loops, skipped_generations, dt_in>>
vars == <<nets, shape0, op, memo, muts, watch,
          elapsed, loops, skipped_generations, dt_in>>

(***************************************************************************)
(* Bounds of the model.                                                    *)
(***************************************************************************)
\* the population the operators act on: two parents built by new, and the
\* children of their crossovers
Parents == {1, 2}
Slots == {1, 2, 3}
\* number of genes the mutate() calls of one behaviour replace
MaxHits == 1

\* values mutate() replaces a weight or a bias by
Vals == {0}
\* arguments of NeuralNetwork::new: <<input_count, output_count, layer_sizes>>
NewArgs ==
  { <<1, 1, <<>>>>, <<2, 1, <<>>>>, <<1, 1, <<2>>>>, <<1, 0, <<>>>>, <<1, 1, <<0>>>> }
\* input vectors handed to predict
InputVectors == { <<2>>, <<1, -1>> }
\* random streams the neurons of a new network are drawn from, one value
\* after the other
RandomStreams == { <<1, -1, 1, 1, -1, 1>>, <<-1, -1, 1, -1, 1, 1>> }

None == [kind |-> "none"]

(***************************************************************************)
(* NeuralNetworkNeuron (design document, sec. 4.1)                         *)
(***************************************************************************)
\* NeuralNetworkNeuron::new(input_count, activation): input_count weights
\* and a bias, the next input_count + 1 values of the stream r after at.
NeuronNew(n, act, r, at) ==
  [weights |-> [k \in 1..n |-> r[at + k]], bias |-> r[at + n + 1], activation |-> act]

RECURSIVE Dot(_, _, _)
Dot(w, x, k) == IF k = 0 THEN 0 ELSE w[k] * x[k] + Dot(w, x, k - 1)

\* The bounded nonlinearity on the integers: odd, monotone, TanH(0) = 0,
\* saturating at the bounds.
TanH(s) == IF s > 1 THEN 1 ELSE IF s < -1 THEN -1 ELSE s

\* activate(inputs): bias + sum(weights[k] * inputs[k]), then the activation.
\* The defensive assertion len(inputs) == len(weights) is the panic flag.
Activate(neuron, inputs) ==
  IF Len(inputs) # Len(neuron.weights) THEN [panic |-> TRUE, value |-> 0]
  ELSE LET s == neuron.bias + Dot(neuron.weights, inputs, Len(inputs))
       IN  [panic |-> FALSE,
            value |-> IF neuron.activation = "TanH" THEN TanH(s) ELSE s]

\* crossover(other): every weight position, and the bias (position 0), is
\* taken from self (pick TRUE) or from other (pick FALSE).
NeuronCrossover(x, y, pick) ==
  [weights |-> [k \in 1..Len(x.weights) |->
                  IF pick[k] THEN x.weights[k] ELSE y.weights[k]],
   bias |-> IF pick[0] THEN x.bias ELSE y.bias,
   activation |-> x.activation]

\* mutate(): the genes in DOMAIN hit are replaced by the drawn values, the
\* others are kept (position 0 is the bias).
NeuronMutate(x, hit) ==
  [weights |-> [k \in 1..Len(x.weights) |->
                  IF k \in DOMAIN hit THEN hit[k] ELSE x.weights[k]],
   bias |-> IF 0 \in DOMAIN hit THEN hit[0] ELSE x.bias,
   activation |-> x.activation]

(***************************************************************************)
(* NeuralNetwork::new                                                      *)
(***************************************************************************)
\* vec![elem; n]: n clones of elem
VecRepeat(elem, n) == [j \in 1..n |-> elem]

\* the loop over layer_sizes: one TanH layer per entry, each fed by
\* prev_layer_size, which then becomes the size of the layer just built
\* (r is the random stream, at the number of values drawn from it so far:
\* each layer draws one neuron, which vec! clones)
\* (variant: prev_layer_size is never updated)
RECURSIVE NewHiddenStalePrev(_, _, _, _, _, _)
NewHiddenStalePrev(layers, prev_layer_size, layer_sizes, i, r, at) ==
  IF i > Len(layer_sizes)
  THEN [layers |-> layers, prev |-> prev_layer_size, at |-> at]
  ELSE NewHiddenStalePrev(
         Append(layers,
                VecRepeat(NeuronNew(prev_layer_size, "TanH", r, at), layer_sizes[i])),
         prev_layer_size, layer_sizes, i + 1, r, at + prev_layer_size + 1)

RECURSIVE NewHidden(_, _, _, _, _, _)
NewHidden(layers, prev_layer_size, layer_sizes, i, r, at) ==
  IF i > Len(layer_sizes)
  THEN [layers |-> layers, prev |-> prev_layer_size, at |-> at]
  ELSE NewHidden(
         Append(layers,
                VecRepeat(NeuronNew(prev_layer_size, "TanH", r, at), layer_sizes[i])),
         layer_sizes[i], layer_sizes, i + 1, r, at + prev_layer_size + 1)

NetNew(input_count, output_count, layer_sizes, r) ==
  LET h == NewHidden(<<>>, input_count, layer_sizes, 1, r, 0)
  IN  [input_count |-> input_count,
       output_count |-> output_count,
       layers |-> Append(h.layers,
                    VecRepeat(NeuronNew(h.prev, "Identity", r, h.at), output_count))]

(***************************************************************************)
(* NeuralNetwork::predict                                                  *)
(***************************************************************************)
\* the layer loop: last_activations is replaced by the activations of the
\* layer; fed records the vector each layer consumed, work the number of
\* activate calls made
\* (variant: last_activations is never replaced, every layer is fed the inputs)
RECURSIVE PredictLoopStale(_, _, _, _, _)
PredictLoopStale(layers, i, last_activations, fed, work) ==
  IF i > Len(layers)
  THEN [outcome |-> "ok", outputs |-> last_activations, fed |-> fed, work |-> work]
  ELSE LET layer == layers[i]
           bad == {j \in 1..Len(layer) : Activate(layer[j], last_activations).panic}
       IN  IF bad # {}
           THEN [outcome |-> "neuron_assert", outputs |-> <<>>,
                 fed |-> Append(fed, last_activations),
                 work |-> work + (CHOOSE j \in bad : \A m \in bad : j <= m)]
           ELSE PredictLoopStale(layers, i + 1, last_activations,
                  Append(fed, last_activations), work + Len(layer))

RECURSIVE PredictLoop(_, _, _, _, _)
PredictLoop(layers, i, last_activations, fed, work) ==
  IF i > Len(layers)
  THEN [outcome |-> "ok", outputs |-> last_activations, fed |-> fed, work |-> work]
  ELSE LET layer == layers[i]
           bad == {j \in 1..Len(layer) : Activate(layer[j], last_activations).panic}
       IN  IF bad # {}
           THEN [outcome |-> "neuron_assert", outputs |-> <<>>,
                 fed |-> Append(fed, last_activations),
                 work |-> work + (CHOOSE j \in bad : \A m \in bad : j <= m)]
           ELSE PredictLoop(layers, i + 1,
                  [j \in 1..Len(layer) |-> Activate(layer[j], last_activations).value],
                  Append(fed, last_activations), work + Len(layer))

\* (variant: the length assertion is missing)
predictUnchecked(self, inputs) == PredictLoop(self.layers, 1, inputs, <<>>, 0)

predict(self, inputs) ==
  IF Len(inputs) # self.input_count
  THEN [outcome |-> "assert", outputs |-> <<>>, fed |-> <<>>, work |-> 0]
  ELSE PredictLoop(self.layers, 1, inputs, <<>>, 0)

(***************************************************************************)
(* NeuralNetwork::crossover                                                *)
(***************************************************************************)
\* the gene of neuron j of layer i at position k (0 the bias)
Gene(net, g) ==
  IF g[3] = 0 THEN net.layers[g[1]][g[2]].bias
  ELSE net.layers[g[1]][g[2]].weights[g[3]]

\* the gene positions of a network: <<layer i, neuron j, position k>>
GenePos(net) ==
  UNION {UNION {{<<i, j, k>> : k \in 0..Len(net.layers[i][j].weights)} :
                  j \in 1..Len(net.layers[i])} :
           i \in 1..Len(net.layers)}

\* (variant: the loop asserting the layer sizes is missing)
CompatibleNoLayerSizes(self, other) ==
  /\ self.input_count = other.input_count
  /\ self.output_count = other.output_count
  /\ Len(self.layers) = Len(other.layers)

\* the four assertions that open crossover
Compatible(self, other) ==
  /\ self.input_count = other.input_count
  /\ self.output_count = other.output_count
  /\ Len(self.layers) = Len(other.layers)
  /\ \A i \in 1..Len(self.layers) : Len(self.layers[i]) = Len(other.layers[i])

\* the indexing other.layers[i][j] made by the recombination loops is checked
InBounds(self, other) ==
  \A i \in 1..Len(self.layers) :
    /\ i <= Len(other.layers)
    /\ Len(self.layers[i]) <= Len(other.layers[i])

\* (variant: the outer loop stops one layer early)
CrossoverLayersDropLast(self, other, pick) ==
  [i \in 1..(Len(self.layers) - 1) |->
     [j \in 1..Len(self.layers[i]) |->
        NeuronCrossover(self.layers[i][j], other.layers[i][j],
                        [k \in 0..Len(self.layers[i][j].weights) |-> pick[<<i, j, k>>]])]]

\* (variant: self.layers[i][j] is crossed over with the neuron of other at the
\* mirrored position of the layer)
CrossoverLayersMirror(self, other, pick) ==
  [i \in 1..Len(self.layers) |->
     [j \in 1..Len(self.layers[i]) |->
        NeuronCrossover(self.layers[i][j],
                        other.layers[i][Len(self.layers[i]) - j + 1],
                        [k \in 0..Len(self.layers[i][j].weights) |-> pick[<<i, j, k>>]])]]

\* (variant: the layers are assembled last to first)
CrossoverLayersReversed(self, other, pick) ==
  [i \in 1..Len(self.layers) |->
     LET m == Len(self.layers) - i + 1
     IN  [j \in 1..Len(self.layers[m]) |->
            NeuronCrossover(self.layers[m][j], other.layers[m][j],
                            [k \in 0..Len(self.layers[m][j].weights) |-> pick[<<m, j, k>>]])]]

\* the recombination loops: new_layers[i][j] crosses self.layers[i][j] over
\* with other.layers[i][j]; pick holds the draws of the neurons
CrossoverLayers(self, other, pick) ==
  [i \in 1..Len(self.layers) |->
     [j \in 1..Len(self.layers[i]) |->
        NeuronCrossover(self.layers[i][j], other.layers[i][j],
                        [k \in 0..Len(self.layers[i][j].weights) |-> pick[<<i, j, k>>]])]]

RECURSIVE SumLen(_, _)
SumLen(layers, i) == IF i = 0 THEN 0 ELSE Len(layers[i]) + SumLen(layers, i - 1)

crossover(self, other, pick) ==
  IF ~Compatible(self, other)
  THEN [outcome |-> "assert", net |-> None, work |-> 0]
  ELSE IF ~InBounds(self, other)
  THEN [outcome |-> "index_out_of_bounds", net |-> None, work |-> 0]
  ELSE [outcome |-> "ok",
        net |-> [input_count |-> self.input_count,
                 output_count |-> self.output_count,
                 layers |-> CrossoverLayers(self, other, pick)],
        work |-> SumLen(self.layers, Len(self.layers))]

(***************************************************************************)
(* NeuralNetwork::mutate                                                   *)
(***************************************************************************)
\* the draws of one mutate call that hits at most n genes: the genes hit and
\* their new values
RECURSIVE SubsetsUpTo(_, _)
SubsetsUpTo(S, n) ==
  IF n = 0 THEN {{}}
  ELSE LET P == SubsetsUpTo(S, n - 1) IN P \cup {T \cup {x} : T \in P, x \in S}

HitSets(net, n) == UNION {[H -> Vals] : H \in SubsetsUpTo(GenePos(net), n)}

\* the part of the draws that falls on neuron j of layer i
HitOf(hits, i, j) ==
  [k \in {g[3] : g \in {h \in DOMAIN hits : h[1] = i /\ h[2] = j}} |->
     hits[<<i, j, k>>]]

\* neuron.mutate() on every neuron of every layer
mutate(self, hits) ==
  [self EXCEPT !.layers =
     [i \in 1..Len(self.layers) |->
        [j \in 1..Len(self.layers[i]) |->
           NeuronMutate(self.layers[i][j], HitOf(hits, i, j))]]]

(***************************************************************************)
(* The operations, applied to a population of networks                     *)
(*                                                                         *)
(* Two observers follow a behaviour: under watch = "calls" op records the  *)
(* last call with its result, under watch = "predictions" memo remembers   *)
(* the last successful prediction of a network that was not mutated since, *)
(* with the kinds of the calls made after it.                              *)
(***************************************************************************)
NoOp ==
  [kind |-> "init", self |-> 0, other |-> 0, child |-> 0, inputs |-> <<>>,
   outcome |-> "ok", outputs |-> <<>>, fed |-> <<>>, work |-> 0]

Log(rec) == IF watch = "calls" THEN rec ELSE NoOp

Later(kind) ==
  IF memo.kind = "predict" THEN [memo EXCEPT !.since = @ \cup {kind}] ELSE memo

NetInit ==
  /\ nets = <<>>
  /\ shape0 = <<>>
  /\ op = NoOp
  /\ memo = None
  /\ muts = 0

\* let n = NeuralNetwork::new(input_count, output_count, layer_sizes)
New(args, r) ==
  /\ Len(nets) < Cardinality(Parents)
  /\ nets' = Append(nets, NetNew(args[1], args[2], args[3], r))
  /\ shape0' = Append(shape0, [input_count |-> args[1], output_count |-> args[2],
                               sizes |-> Append(args[3], args[2])])
  /\ op' = Log([NoOp EXCEPT !.kind = "new", !.self = Len(nets) + 1])
  /\ memo' = Later("new")
  /\ UNCHANGED <<muts, watch>>

\* nets[n].predict(&v)
Predict(n, v) ==
  LET r == predict(nets[n], v)
  IN  /\ op' = Log([NoOp EXCEPT !.kind = "predict", !.self = n, !.inputs = v,
                                !.outcome = r.outcome, !.outputs = r.outputs,
                                !.fed = r.fed, !.work = r.work])
      /\ memo' = IF watch = "predictions" /\ r.outcome = "ok"
                 THEN [kind |-> "predict", self |-> n, inputs |-> v,
                       outputs |-> r.outputs, since |-> {}]
                 ELSE memo
      /\ UNCHANGED <<nets, shape0, muts, watch>>

\* (variant: the child is written over self)
CrossoverInPlace(a, b, pick) ==
  LET r == crossover(nets[a], nets[b], pick)
  IN  /\ Len(nets) < Cardinality(Slots)
      /\ op' = Log([NoOp EXCEPT !.kind = "crossover", !.self = a, !.other = b,
                                !.outcome = r.outcome, !.work = r.work,
                                !.child = IF r.outcome = "ok" THEN a ELSE 0])
      /\ nets' = IF r.outcome = "ok" THEN [nets EXCEPT ![a] = r.net] ELSE nets
      /\ shape0' = shape0
      /\ memo' = IF r.outcome = "ok" THEN Later("crossover") ELSE memo
      /\ UNCHANGED <<muts, watch>>

\* let child = nets[a].crossover(&nets[b]); the child joins the population
Crossover(a, b, pick) ==
  LET r == crossover(nets[a], nets[b], pick)
  IN  /\ Len(nets) < Cardinality(Slots)
      /\ op' = Log([NoOp EXCEPT !.kind = "crossover", !.self = a, !.other = b,
                                !.outcome = r.outcome, !.work = r.work,
                                !.child = IF r.outcome = "ok" THEN Len(nets) + 1 ELSE 0])
      /\ nets' = IF r.outcome = "ok" THEN Append(nets, r.net) ELSE nets
      /\ shape0' = IF r.outcome = "ok" THEN Append(shape0, shape0[a]) ELSE shape0
      /\ memo' = IF r.outcome = "ok" THEN Later("crossover") ELSE memo
      /\ UNCHANGED <<muts, watch>>

\* (variant: the neurons of the first network are shared with the receiver,
\* and are mutated with it)
MutateShared(n, hits) ==
  /\ muts + Cardinality(DOMAIN hits) <= MaxHits
  /\ muts' = muts + Cardinality(DOMAIN hits)
  /\ nets' = [m \in DOMAIN nets |->
               IF m = n \/ m = 1 THEN mutate(nets[m], hits) ELSE nets[m]]
  /\ op' = Log([NoOp EXCEPT !.kind = "mutate", !.self = n])
  /\ memo' = IF memo.kind = "predict" /\ memo.self = n THEN None ELSE Later("mutate")
  /\ UNCHANGED <<shape0, watch>>

\* nets[n].mutate()
Mutate(n, hits) ==
  /\ muts + Cardinality(DOMAIN hits) <= MaxHits
  /\ muts' = muts + Cardinality(DOMAIN hits)
  /\ nets' = [nets EXCEPT ![n] = mutate(nets[n], hits)]
  /\ op' = Log([NoOp EXCEPT !.kind = "mutate", !.self = n])
  /\ memo' = IF memo.kind = "predict" /\ memo.self = n THEN None ELSE Later("mutate")
  /\ UNCHANGED <<shape0, watch>>

StepNew == Len(nets) < Cardinality(Parents) /\ \E args \in NewArgs :
             \E r \in RandomStreams : New(args, r)

StepPredict == \E n \in DOMAIN nets : \E v \in InputVectors : Predict(n, v)

\* the draws of one crossover call: none is made unless the assertions pass,
\* and a draw between two equal genes is taken as TRUE (either gives the
\* same child)
Picks(self, other) ==
  IF Compatible(self, other) /\ InBounds(self, other)
  THEN LET differ == {g \in GenePos(self) :
                         \/ g[3] > Len(other.layers[g[1]][g[2]].weights)
                         \/ Gene(self, g) # Gene(other, g)}
       IN  {[g \in GenePos(self) |-> g \notin T] : T \in SUBSET differ}
  ELSE {[g \in GenePos(self) |-> TRUE]}

StepCrossover == Len(nets) < Cardinality(Slots) /\ \E a \in DOMAIN nets : \E b \in DOMAIN nets :
                   \E pick \in Picks(nets[a], nets[b]) : Crossover(a, b, pick)

\* the draws of one mutate call: the genes hit, within what is left of MaxHits
StepMutate == \E n \in DOMAIN nets : \E hits \in HitSets(nets[n], MaxHits - muts) :
                Mutate(n, hits)

(***************************************************************************)
(* XorApp::update                                                          *)
(*                                                                         *)
(* Time is counted in ticks, TicksPerSecond ticks to the second, so that   *)
(* SECONDS_PER_GENERATION and MAX_TIME are whole numbers of ticks.  A time  *)
(* is a number of two limbs [hi, lo] of value hi * Base + lo: the cast to  *)
(* u32 saturates at 2^32 - 1 generations, beyond what one limb holds.      *)
(***************************************************************************)
TicksPerSecond == 3000
GENERATIONS_PER_SECOND == 100
SECONDS_PER_GENERATION == TicksPerSecond \div GENERATIONS_PER_SECOND
MAX_TIME == TicksPerSecond \div 30

Base == 2 ^ 16
Big(n) == [hi |-> n \div Base, lo |-> n % Base]
BigGeq(x, y) == x.hi > y.hi \/ (x.hi = y.hi /\ x.lo >= y.lo)
BigAdd(x, y) ==
  LET l == x.lo + y.lo IN [hi |-> x.hi + y.hi + l \div Base, lo |-> l % Base]
\* x - y, for x >= y
BigSub(x, y) ==
  LET l == x.lo - y.lo
  IN  IF l >= 0 THEN [hi |-> x.hi - y.hi, lo |-> l]
      ELSE [hi |-> x.hi - y.hi - 1, lo |-> l + Base]
\* x * c and x / c, for a small c
BigMul(x, c) ==
  LET l == x.lo * c IN [hi |-> x.hi * c + l \div Base, lo |-> l % Base]
BigDivMod(x, c) ==
  LET t == (x.hi % c) * Base + x.lo
  IN  [quot |-> [hi |-> x.hi \div c, lo |-> t \div c], rem |-> t % c]
\* (x / c).ceil()
CeilDiv(x, c) ==
  LET d == BigDivMod(x, c)
  IN  IF d.rem = 0 THEN d.quot ELSE BigAdd(d.quot, Big(1))

\* `as u32` on a non-negative f64: the value, saturated at u32::MAX
U32_MAX == [hi |-> Base - 1, lo |-> Base - 1]
AsU32(x) == IF BigGeq(x, U32_MAX) THEN U32_MAX ELSE x

\* the frame times update is called with: short frames, frames around
\* MAX_TIME, long stalls, and stalls around (2^32 - 1) generations
StallAt(k) == BigAdd(BigMul(U32_MAX, SECONDS_PER_GENERATION), Big(MAX_TIME + k))
FrameTimes ==
  {Big(t) : t \in {0, 1, 7, 29, 30, 50, 99, 100, 101, 131, 3000, 1000000}}
    \cup {StallAt(k) : k \in {0, 1, 20, 150}}
    \cup {[hi |-> 2 ^ 22, lo |-> 5]}

\* XorApp::new()
XorNew ==
  /\ elapsed = Big(0)
  /\ loops = Big(0)
  /\ skipped_generations = Big(0)
  /\ dt_in = Big(0)

\* update(dt): loops counts the runs of the generation-advance loop, which
\* subtracts SECONDS_PER_GENERATION while elapsed >= SECONDS_PER_GENERATION
update(dt) ==
  LET added == BigAdd(elapsed, dt)
      skipped ==
        IF BigGeq(added, Big(MAX_TIME))
        THEN AsU32(CeilDiv(BigSub(added, Big(MAX_TIME)), SECONDS_PER_GENERATION))
        ELSE Big(0)
      kept == BigSub(added, BigMul(skipped, SECONDS_PER_GENERATION))
      advance == BigDivMod(kept, SECONDS_PER_GENERATION)
  IN  /\ elapsed' = Big(advance.rem)
      /\ loops' = advance.quot
      /\ skipped_generations' = skipped
      /\ dt_in' = dt

StepUpdate == \E dt \in FrameTimes : update(dt)

(***************************************************************************)
(* Properties                                                              *)
(***************************************************************************)
\* the shape of a network: its counts and the neuron count of every layer
ShapeOf(net) ==
  [input_count |-> net.input_count, output_count |-> net.output_count,
   sizes |-> [i \in 1..Len(net.layers) |-> Len(net.layers[i])]]

\* C1: every network keeps the shape it was built with: the arguments of new
\* for a parent, the shape of self for a crossover child, whatever mutate and
\* crossover calls were made since.
C1_ShapePreserved ==
  /\ Len(shape0) = Len(nets)
  /\ \A n \in DOMAIN nets : ShapeOf(nets[n]) = shape0[n]

\* a two-layer crossover child that was then mutated
C1_Witness ==
  /\ op.kind = "mutate" /\ op.self = 3 /\ muts >= 1
  /\ Len(nets) = 3 /\ Len(nets[3].layers) = 2
  /\ \E g \in GenePos(nets[3]) : Gene(nets[3], g) = 0

\* C2: predict with an input vector of the wrong length, and crossover of two
\* networks of different shapes, fail on the assertion, with no neuron
\* activated or recombined and nothing returned.
C2_MismatchFails ==
  /\ (op.kind = "predict" /\ Len(op.inputs) # nets[op.self].input_count)
       => (op.outcome = "assert" /\ op.work = 0 /\ op.outputs = <<>>)
  /\ (op.kind = "crossover" /\ ShapeOf(nets[op.self]) # ShapeOf(nets[op.other]))
       => (op.outcome = "assert" /\ op.work = 0 /\ op.child = 0)

\* a crossover of two parents that differ in the size of one layer only
C2_Witness ==
  /\ op.kind = "crossover" /\ op.outcome = "assert"
  /\ nets[op.self].input_count = nets[op.other].input_count
  /\ nets[op.self].output_count = nets[op.other].output_count
  /\ Len(nets[op.self].layers) = Len(nets[op.other].layers)
  /\ ShapeOf(nets[op.self]) # ShapeOf(nets[op.other])

\* the activations of a layer fed the vector x
LayerOut(layer, x) == [j \in 1..Len(layer) |-> Activate(layer[j], x).value]

\* C3: a predict call with input_count inputs succeeds; layer 1 is fed the
\* inputs, every later layer the activations of the layer before it, and the
\* result is the activations of the last layer, output_count values.
C3_PredictLayered ==
  (op.kind = "predict" /\ Len(op.inputs) = nets[op.self].input_count) =>
    LET layers == nets[op.self].layers
        last == Len(layers)
    IN  /\ op.outcome = "ok"
        /\ Len(op.fed) = last
        /\ op.fed[1] = op.inputs
        /\ \A i \in 2..last : op.fed[i] = LayerOut(layers[i - 1], op.fed[i - 1])
        /\ op.outputs = LayerOut(layers[last], op.fed[last])
        /\ Len(op.outputs) = nets[op.self].output_count

\* a prediction through a hidden layer of two neurons
C3_Witness ==
  /\ op.kind = "predict" /\ op.outcome = "ok"
  /\ Len(op.fed) = 2 /\ Len(op.fed[2]) = 2 /\ Len(op.outputs) = 1

\* C4: the network new returns has one TanH layer per entry of layer_sizes,
\* of that size, then one Identity layer of output_count neurons; the neurons
\* of a layer have as many weights as the layer before has neurons
\* (input_count for the first).
C4_NewShape ==
  op.kind = "new" =>
    LET net == nets[op.self]
        args == shape0[op.self]
        hidden == Len(args.sizes) - 1
    IN  /\ Len(net.layers) = hidden + 1
        /\ \A i \in 1..hidden :
             /\ Len(net.layers[i]) = args.sizes[i]
             /\ \A j \in 1..Len(net.layers[i]) : net.layers[i][j].activation = "TanH"
        /\ Len(net.layers[hidden + 1]) = args.output_count
        /\ \A j \in 1..Len(net.layers[hidden + 1]) :
             net.layers[hidden + 1][j].activation = "Identity"
        /\ \A i \in 1..(hidden + 1) : \A j \in 1..Len(net.layers[i]) :
             Len(net.layers[i][j].weights) =
               IF i = 1 THEN args.input_count ELSE args.sizes[i - 1]

\* new with a hidden layer of two neurons
C4_Witness ==
  /\ op.kind = "new"
  /\ Len(nets[op.self].layers) = 2 /\ Len(nets[op.self].layers[1]) = 2

\* C5: every gene of a crossover child is the gene of self or the gene of
\* other at the same layer, neuron and position, and the child has the gene
\* positions of self.
C5_GeneProvenance ==
  (op.kind = "crossover" /\ op.outcome = "ok") =>
    LET A == nets[op.self]
        B == nets[op.other]
        C == nets[op.child]
    IN  /\ GenePos(C) = GenePos(A)
        /\ \A g \in GenePos(C) : Gene(C, g) \in {Gene(A, g), Gene(B, g)}

\* a child that differs from both of its parents
C5_Witness ==
  /\ op.kind = "crossover" /\ op.outcome = "ok"
  /\ \E g \in GenePos(nets[op.child]) :
       Gene(nets[op.child], g) # Gene(nets[op.self], g)
  /\ \E g \in GenePos(nets[op.child]) :
       Gene(nets[op.child], g) # Gene(nets[op.other], g)

\* C6: a step changes a network of the population only if it is mutate called
\* on that network; no step removes a network.
C6_OnlyMutateChanges ==
  [][\A n \in DOMAIN nets :
       /\ n \in DOMAIN nets'
       /\ nets'[n] # nets[n] => (op'.kind = "mutate" /\ op'.self = n)]_vars

\* a crossover child, mutated beside its two parents
C6_Witness ==
  /\ op.kind = "mutate" /\ op.self = 3 /\ Len(nets) = 3
  /\ ShapeOf(nets[1]) = ShapeOf(nets[3]) /\ ShapeOf(nets[2]) = ShapeOf(nets[3])
  /\ \E g \in GenePos(nets[3]) :
       Gene(nets[3], g) = 0 /\ Gene(nets[1], g) # 0 /\ Gene(nets[2], g) # 0

\* C7: as long as a network is not mutated, predict on the inputs of its
\* remembered prediction returns the remembered outputs.
C7_PredictionRepeats ==
  memo.kind = "predict" =>
    LET r == predict(nets[memo.self], memo.inputs)
    IN  r.outcome = "ok" /\ r.outputs = memo.outputs

\* a remembered prediction, followed by a crossover and by the mutation of
\* another network
C7_Witness ==
  /\ memo.kind = "predict" /\ {"crossover", "mutate"} \subseteq memo.since
  /\ muts >= 1 /\ memo.outputs # <<>>

\* a network with an empty layer, and one with a neuron in every layer
Degenerate(net) ==
  net.output_count = 0 \/ \E i \in 1..Len(net.layers) : Len(net.layers[i]) = 0
Natural(net) == \A i \in 1..Len(net.layers) : Len(net.layers[i]) >= 1

\* C8: new accepts the arguments of a degenerate network, and a crossover of
\* a degenerate network with a natural one fails on the assertion, in either
\* order.
C8_DegenerateRejected ==
  /\ op.kind = "new" => (op.outcome = "ok" /\ Len(nets) = op.self)
  /\ (op.kind = "crossover" /\
        \/ Degenerate(nets[op.self]) /\ Natural(nets[op.other])
        \/ Natural(nets[op.self]) /\ Degenerate(nets[op.other]))
       => (op.outcome = "assert" /\ op.child = 0)

\* a degenerate self with an empty hidden layer, crossed over with a natural
\* network of the same counts and number of layers
C8_Witness ==
  /\ op.kind = "crossover"
  /\ Degenerate(nets[op.self]) /\ Natural(nets[op.other])
  /\ nets[op.self].input_count = nets[op.other].input_count
  /\ nets[op.self].output_count = nets[op.other].output_count
  /\ Len(nets[op.self].layers) = Len(nets[op.other].layers)

\* the neurons of every layer have as many weights as the layer is fed values
WellFormed(net) ==
  \A i \in 1..Len(net.layers) : \A j \in 1..Len(net.layers[i]) :
    Len(net.layers[i][j].weights) =
      IF i = 1 THEN net.input_count ELSE Len(net.layers[i - 1])

\* C9: every network of the population is well formed, and a predict call
\* with input_count inputs never trips the length assertion of a neuron.
C9_WeightCounts ==
  /\ \A n \in DOMAIN nets : WellFormed(nets[n])
  /\ (op.kind = "predict" /\ Len(op.inputs) = nets[op.self].input_count)
       => op.outcome # "neuron_assert"

\* a prediction on a two-layer crossover child, after a mutation
C9_Witness ==
  /\ op.kind = "predict" /\ op.self = 3 /\ op.outcome = "ok"
  /\ muts >= 1 /\ Len(nets[3].layers) = 2 /\ Len(nets[3].layers[1]) = 2

\* C10: every update call runs the generation-advance loop at most
\* floor(MAX_TIME / SECONDS_PER_GENERATION) times and returns with
\* elapsed < SECONDS_PER_GENERATION.
C10_LoopAtMostThree ==
  /\ BigGeq(Big(MAX_TIME \div SECONDS_PER_GENERATION), loops)
  /\ ~BigGeq(elapsed, Big(SECONDS_PER_GENERATION))

(***************************************************************************)
(* Specifications                                                          *)
(***************************************************************************)
Init == NetInit /\ watch = "calls" /\ XorNew

InitDet == NetInit /\ watch = "predictions" /\ XorNew

Next ==
  \/ StepNew /\ UNCHANGED xorVars
  \/ StepPredict /\ UNCHANGED xorVars
  \/ StepCrossover /\ UNCHANGED xorVars
  \/ StepMutate /\ UNCHANGED xorVars

NextXor == StepUpdate /\ UNCHANGED netVars

Spec == Init /\ [][Next]_vars

SpecDet == InitDet /\ [][Next]_vars

SpecXor == Init /\ [][NextXor]_vars

====
